---- MODULE Spec2Model ----
(***************************************************************************)
(* Model of the fuzzy-supplier-finder front end: the corporate-hierarchy   *)
(* resolution (companyUtils: parseCompanyFromGLEIF, followRelationshipLink,*)
(* fetchParentCompany, fetchUltimateParentCompany, fetchDirectChildren,    *)
(* fetchCorporateHierarchy), the EntityTree effect that displays it, and   *)
(* the name-matching batch of the FileUploader with the per-row retry of   *)
(* the SupplierTable.                                                      *)
(*                                                                         *)
(* JavaScript runs one callback at a time: an action of this model is the  *)
(* code that runs between two suspension points (an await of a fetch or of *)
(* a timer), and the response of the registry is drawn when the awaited    *)
(* fetch completes.                                                        *)
(***************************************************************************)
EXTENDS Integers, Sequences, FiniteSets, TLC

\* ------------------------------------------------------------------ bounds
NumIds == 2          \* distinct registry identifiers (LEIs / reason codes)
MaxChildren == 2     \* length of a children listing returned by the registry

MaxRows == 3         \* rows of an uploaded CSV file
sampleSize == 2      \* cap of the batch (40 in FileUploader.tsx), scaled down
prefetchLimit == 1   \* rows with exception prefetch (i < 10), scaled down

Ids == 1..NumIds

\* ------------------------------------------------- registry payloads (JSON)
Null == [kind |-> "null"]

\* names of the links of a relationship in the registry's link bundle
LinkNames == {"lei-record", "reporting-exception", "relationship-record"}

\* relationships["direct-parent"] of a payload: absent, or present with a
\* links object carrying some of the sub-links
NoRel == [present |-> FALSE, links |-> {}]
Rels == {NoRel} \cup {[present |-> TRUE, links |-> s] : s \in SUBSET LinkNames}
ChildRels == {[present |-> FALSE, related |-> FALSE],
              [present |-> TRUE, related |-> FALSE],
              [present |-> TRUE, related |-> TRUE]}
NoChildRel == [present |-> FALSE, related |-> FALSE]

\* result.data of a registry response, reduced to what the code inspects:
\*   type    data.type
\*   attrs   "absent": no data.attributes; "company": attributes with entity,
\*           legalAddress, legalName, registration; "exception": attributes
\*           with category and reason but no entity
\*   nested  data.relationships["lei-record"].links.related is present
\*   id      data.id (a company) or attributes.reason (an exception)
Types == {"lei-records", "reporting-exceptions", "relationship-records"}
Attrs == {"absent", "company", "exception"}

Payload(t, a, n, i, dp, up, dc) ==
    [kind |-> "payload", type |-> t, attrs |-> a, nested |-> n, id |-> i,
     directParent |-> dp, ultimateParent |-> up, directChildren |-> dc]

\* resources found behind the links of a hierarchy (their own relationship
\* bundles play no part in the resolution of the root)
Resources ==
    {Payload(t, a, n, i, NoRel, NoRel, NoChildRel) :
        t \in Types, a \in Attrs, n \in BOOLEAN, i \in Ids}

\* a completed fetch + response.json(): it threw, or it gave a body whose
\* data member is missing (Null) or a resource
Threw == [threw |-> TRUE, data |-> Null]
Body(d) == [threw |-> FALSE, data |-> d]
Responses == {Threw} \cup {Body(d) : d \in {Null} \cup Resources}

\* ---------------------------------------------------- parseCompanyFromGLEIF
\* the descriptor the parser extracts from a relationship of the payload
ParserDescriptor(rel) ==
    [present |-> rel.present,
     links |-> {l \in {"relationshipRecord", "leiRecord", "reportingException"} :
                  \/ l = "relationshipRecord" /\ "relationship-record" \in rel.links
                  \/ l = "leiRecord" /\ "lei-record" \in rel.links
                  \/ l = "reportingException" /\ "reporting-exception" \in rel.links}]

\* variant: the guard on data.attributes is missing
parseCompanyThrows_unguarded(data) ==
    data # Null /\ data.attrs \in {"absent", "exception"}

\* does parseCompanyFromGLEIF throw on this payload (attributes.entity is
\* undefined, so entity.legalAddress raises a TypeError)
parseCompanyThrows(data) ==
    data # Null /\ data.attrs = "exception"

\* the value parseCompanyFromGLEIF returns when it does not throw
parseCompanyFromGLEIF(data) ==
    IF data = Null \/ data.attrs = "absent" THEN Null
    ELSE LET dp == ParserDescriptor(data.directParent)
             up == ParserDescriptor(data.ultimateParent)
         IN [kind |-> "company",
             lei |-> data.id,
             hasDirectParent |-> ("leiRecord" \in dp.links \/ "reportingException" \in dp.links),
             hasUltimateParent |-> ("leiRecord" \in up.links \/ "reportingException" \in up.links),
             hasChildren |-> data.directChildren.related,
             relationships |-> [directParent |-> dp, ultimateParent |-> up,
                                directChildren |-> data.directChildren]]

\* --------------------------------------------- parseReportingExceptionFromGLEIF
\* attributes.category.includes(...) raises when attributes has no category
parseExceptionThrows(data) ==
    data # Null /\ data.attrs = "company"

parseReportingExceptionFromGLEIF(data) ==
    IF data = Null \/ data.attrs = "absent" THEN Null
    ELSE [kind |-> "exception", reason |-> data.id]

\* ------------------------------------------------------------- program state
VARIABLES
    company,        \* EntityTree: the company prop (the root asked for last)
    hierarchyData,  \* EntityTree: useState hierarchyData
    isLoading,      \* EntityTree: useState isLoading
    error,          \* EntityTree: useState error
    loads,          \* the loadHierarchy calls started so far, each with its position
    lastLoad,       \* history: the load whose result setHierarchyData applied last
    selections      \* the roots the user is still going to select, in order

VARIABLES
    uploads,        \* the CSV files the user is still going to supply, in order
    arrays,         \* the suppliers array built from each file supplied so far
    batches,        \* the matchSuppliersWithGLEIF call of each file, with its position
    suppliers,      \* Index: useState suppliers (which array is displayed, 0: none)
    isLoaded,       \* Index: useState isLoaded (FileUploader is mounted iff false)
    retries,        \* refetchSupplier calls in flight, each with its position
    pendingMatches  \* SupplierTable: useState pendingMatches

VARIABLES
    call            \* a function examined on its own: its inputs, position and result

hierVars == <<company, hierarchyData, isLoading, error, loads, lastLoad, selections>>
batchVars == <<uploads, arrays, batches, suppliers, isLoaded, retries, pendingMatches>>
callVars == <<call>>
vars == <<hierVars, batchVars, callVars>>

\* the companies a hierarchy is requested for: records produced by the parser
\* from a registry payload with some bundle of links
RootPayloads ==
    {Payload("lei-records", "company", FALSE, i, dp, up, dc) :
        i \in Ids, dp \in Rels, up \in Rels, dc \in ChildRels}
Roots == {parseCompanyFromGLEIF(p) : p \in RootPayloads}

\* ------------------------------------------------- fetchCorporateHierarchy
\* hierarchyData as initialised at the top of fetchCorporateHierarchy
initialHierarchyData(c) ==
    [current |-> c,
     directParent |-> Null, directParentException |-> Null,
     ultimateParent |-> Null, ultimateParentException |-> Null,
     children |-> <<>>, loading |-> TRUE, error |-> Null]

NoLog == [direct |-> <<>>, ultimate |-> <<>>]

\* the descriptor fetchParentCompany / fetchUltimateParentCompany works on
Descriptor(ld) ==
    IF ld.slot = "direct" THEN ld.company.relationships.directParent
    ELSE ld.company.relationships.ultimateParent

\* history: the outcome of the link that was being followed
Logged(ld, link, outcome) ==
    [ld EXCEPT !.log[ld.slot] = Append(@, [link |-> link, outcome |-> outcome])]

\* the finally block and the return of fetchCorporateHierarchy
finishHierarchy(ld) ==
    [ld EXCEPT !.pc = "done", !.slot = "-", !.data.loading = FALSE]

\* "Fetch children if available": suspend on the listing fetch or finish
enterChildren(ld) ==
    IF ld.company.hasChildren /\ ld.company.relationships.directChildren.related
    THEN [ld EXCEPT !.pc = "children", !.slot = "-"]
    ELSE finishHierarchy(ld)

RECURSIVE afterParent(_)

\* variant: fetchParentCompany lets the error of its last attempt escape
returnParent_rethrows(ld, parentEntity, parentException) ==
    IF /\ ld.log[ld.slot] # <<>>
       /\ ld.log[ld.slot][Len(ld.log[ld.slot])].outcome \in {"threw", "parse-error"}
    THEN [ld EXCEPT !.pc = "threw", !.data = Null]
    ELSE afterParent(
            IF ld.slot = "direct"
            THEN [ld EXCEPT !.data.directParent = parentEntity,
                            !.data.directParentException = parentException]
            ELSE [ld EXCEPT !.data.ultimateParent = parentEntity,
                            !.data.ultimateParentException = parentException])

\* fetchParentCompany returns {parentEntity, parentException}; the caller
\* stores both members into the slot's two fields
returnParent(ld, parentEntity, parentException) ==
    afterParent(
        IF ld.slot = "direct"
        THEN [ld EXCEPT !.data.directParent = parentEntity,
                        !.data.directParentException = parentException]
        ELSE [ld EXCEPT !.data.ultimateParent = parentEntity,
                        !.data.ultimateParentException = parentException])

\* "If no direct link or exception, try the relationship record"
tryRelationshipRecord(ld) ==
    IF "relationshipRecord" \in Descriptor(ld).links
    THEN [ld EXCEPT !.pc = "rel"]
    ELSE returnParent(ld, Null, Null)

\* "Check for reporting exception"
tryReportingException(ld) ==
    IF "reportingException" \in Descriptor(ld).links
    THEN [ld EXCEPT !.pc = "exc"]
    ELSE tryRelationshipRecord(ld)

\* fetchParentCompany / fetchUltimateParentCompany up to their first await
fetchParentCompany(ld) ==
    IF ~Descriptor(ld).present THEN returnParent(ld, Null, Null)
    ELSE IF "leiRecord" \in Descriptor(ld).links THEN [ld EXCEPT !.pc = "lei"]
    ELSE tryReportingException(ld)

\* fetchCorporateHierarchy after a parent branch: the next branch
afterParent(ld) ==
    IF ld.slot = "direct"
    THEN IF ld.company.hasUltimateParent
         THEN fetchParentCompany([ld EXCEPT !.slot = "ultimate"])
         ELSE enterChildren(ld)
    ELSE enterChildren(ld)

\* fetchCorporateHierarchy from its call to its first await
fetchCorporateHierarchy(c) ==
    LET ld == [pc |-> "start", slot |-> "direct", company |-> c,
               data |-> initialHierarchyData(c), log |-> NoLog]
    IN IF c.hasDirectParent THEN fetchParentCompany(ld) ELSE afterParent(ld)

\* ---------------------------------------------------- followRelationshipLink
\* what followRelationshipLink returns, {type, data} or null
LinkResult(t, d) == [kind |-> "result", type |-> t, data |-> d]

\* variant: the nested link is followed whatever the type of the resource
followsNested_anyType(resp) ==
    /\ ~resp.threw
    /\ resp.data # Null
    /\ resp.data.nested

\* after the first fetch: must the nested lei-record link be fetched
followsNested(resp) ==
    /\ ~resp.threw
    /\ resp.data # Null
    /\ resp.data.type # "reporting-exceptions"
    /\ resp.data.nested

\* the result when the first fetch settles it
followRelationshipLink(resp) ==
    IF resp.threw \/ resp.data = Null THEN Null
    ELSE IF resp.data.type = "reporting-exceptions"
         THEN IF parseExceptionThrows(resp.data) THEN Null
              ELSE LinkResult("exception", parseReportingExceptionFromGLEIF(resp.data))
    ELSE IF resp.data.type = "lei-records"
         THEN IF parseCompanyThrows(resp.data) THEN Null
              ELSE LinkResult("lei-record", parseCompanyFromGLEIF(resp.data))
    ELSE Null

\* the result after the second fetch (of the nested lei-record link)
followNestedLink(resp) ==
    IF resp.threw \/ resp.data = Null THEN Null
    ELSE IF parseCompanyThrows(resp.data) THEN Null
    ELSE LinkResult("lei-record", parseCompanyFromGLEIF(resp.data))

\* history: the error caught inside followRelationshipLink, if any
followFailed(resp) ==
    IF resp.threw THEN "threw"
    ELSE IF
    \/ resp.data # Null /\ resp.data.type = "reporting-exceptions" /\ parseExceptionThrows(resp.data)
    \/ resp.data # Null /\ resp.data.type = "lei-records" /\ ~resp.data.nested
          /\ parseCompanyThrows(resp.data)
    THEN "parse-error"
    ELSE "unresolved"

nestedFailed(resp) ==
    IF resp.threw THEN "threw"
    ELSE IF resp.data # Null /\ parseCompanyThrows(resp.data) THEN "parse-error"
    ELSE "unresolved"

\* history: the resolver returned a record under the tag the caller does not
\* look for, which the caller lets go
otherTag(result, failed) ==
    IF result # Null /\ result.data # Null
    THEN IF result.type = "exception" THEN "got-exception" ELSE "got-entity"
    ELSE failed

\* a slip in the exception branch: the result is returned in both members
afterException_bothMembers(ld, result, failed) ==
    IF result # Null /\ result.type = "exception"
    THEN returnParent(Logged(ld, "reportingException", "exception"), result.data, result.data)
    ELSE tryRelationshipRecord(Logged(ld, "reportingException", failed))

\* fetchParentCompany after followRelationshipLink(reportingException)
afterException(ld, result, failed) ==
    IF result # Null /\ result.type = "exception"
    THEN returnParent(Logged(ld, "reportingException", "exception"), Null, result.data)
    ELSE tryRelationshipRecord(
            Logged(ld, "reportingException", otherTag(result, failed)))

\* fetchParentCompany after followRelationshipLink(relationshipRecord)
afterRelationshipRecord(ld, result, failed) ==
    IF result # Null /\ result.type = "lei-record"
    THEN returnParent(Logged(ld, "relationshipRecord", "entity"), result.data, Null)
    ELSE returnParent(
            Logged(ld, "relationshipRecord", otherTag(result, failed)), Null, Null)

afterFollow(ld, result, failed) ==
    IF ld.pc \in {"exc", "exc2"} THEN afterException(ld, result, failed)
    ELSE afterRelationshipRecord(ld, result, failed)

\* -------------------------------------------------------- fetchDirectChildren
\* a page of the children listing: distinct records (the k-th has id k), each
\* with or without well-formed attributes
ChildPayload(k, a) == Payload("lei-records", a, FALSE, k, NoRel, NoRel, NoChildRel)
Listings ==
    UNION {{[k \in 1..n |-> ChildPayload(k, f[k])] : f \in [1..n -> Attrs]} :
              n \in 0..MaxChildren}
Listing(l) == [kind |-> "listing", items |-> l]
ChildResponses == {Threw, Body(Null)} \cup {Body(Listing(l)) : l \in Listings}

\* the for loop over data.data: a child that parses to null is skipped, a
\* child on which the parser throws ends the loop in the catch block
RECURSIVE parseChildren(_, _)
parseChildren(list, children) ==
    IF list = <<>> THEN children
    ELSE IF parseCompanyThrows(Head(list)) THEN children
    ELSE IF parseCompanyFromGLEIF(Head(list)) = Null
         THEN parseChildren(Tail(list), children)
    ELSE parseChildren(Tail(list), Append(children, parseCompanyFromGLEIF(Head(list))))

fetchDirectChildren(resp) ==
    IF resp.threw \/ resp.data = Null THEN <<>>
    ELSE parseChildren(resp.data.items, <<>>)

\* ---------------------------------------------------------------- EntityTree
\* a load moved to position ld: when fetchCorporateHierarchy has returned,
\* loadHierarchy resumes in the same turn, setHierarchyData(hierarchy) and,
\* in its finally block, setIsLoading(false)
Settle(r, ld) ==
    /\ loads' = [loads EXCEPT ![r] = ld]
    /\ IF ld.pc = "done"
       THEN /\ hierarchyData' = ld.data
            /\ isLoading' = FALSE
            /\ lastLoad' = ld
       ELSE UNCHANGED <<hierarchyData, isLoading, lastLoad>>
    /\ UNCHANGED <<company, error, selections>>
    /\ UNCHANGED <<batchVars, callVars>>

\* the company prop changes and the effect runs loadHierarchy
loadHierarchy(c) ==
    /\ selections # <<>>
    /\ c = Head(selections)
    /\ selections' = Tail(selections)
    /\ company' = c
    /\ error' = Null
    /\ LET ld == fetchCorporateHierarchy(c)
       IN /\ loads' = Append(loads, ld)
          /\ IF ld.pc = "done"
             THEN /\ hierarchyData' = ld.data
                  /\ isLoading' = FALSE
                  /\ lastLoad' = ld
             ELSE /\ isLoading' = TRUE
                  /\ UNCHANGED <<hierarchyData, lastLoad>>
    /\ UNCHANGED <<batchVars, callVars>>

\* the fetch of the lei-record link completes (fetchParentCompany)
FetchLeiRecord(r, resp) ==
    /\ loads[r].pc = "lei"
    /\ LET ld == loads[r]
       IN Settle(r,
            IF resp.threw
            THEN returnParent(Logged(ld, "leiRecord", "threw"), Null, Null)
            ELSE IF resp.data # Null
                 THEN IF parseCompanyThrows(resp.data)
                         \/ parseCompanyFromGLEIF(resp.data) = Null
                      THEN \* parentEntity.name of null raises; caught at the end
                           returnParent(Logged(ld, "leiRecord", "parse-error"), Null, Null)
                      ELSE returnParent(Logged(ld, "leiRecord", "entity"),
                                        parseCompanyFromGLEIF(resp.data), Null)
            ELSE tryReportingException(Logged(ld, "leiRecord", "unresolved")))

\* the first fetch of followRelationshipLink completes
FollowLink(r, resp) ==
    /\ loads[r].pc \in {"exc", "rel"}
    /\ LET ld == loads[r]
       IN Settle(r,
            IF followsNested(resp)
            THEN [ld EXCEPT !.pc = IF ld.pc = "exc" THEN "exc2" ELSE "rel2"]
            ELSE afterFollow(ld, followRelationshipLink(resp), followFailed(resp)))

\* the fetch of the nested lei-record link completes
FollowNested(r, resp) ==
    /\ loads[r].pc \in {"exc2", "rel2"}
    /\ Settle(r, afterFollow(loads[r], followNestedLink(resp), nestedFailed(resp)))

\* the fetch of the children listing completes
FetchChildren(r, resp) ==
    /\ loads[r].pc = "children"
    /\ Settle(r, finishHierarchy(
                    [loads[r] EXCEPT !.data.children = fetchDirectChildren(resp)]))

\* a hierarchy is requested for one root
Selections == {<<c>> : c \in Roots}

\* re-rooting: an entity with every direct-parent link and an entity with
\* subsidiaries are selected one after the other, in either order, the second
\* possibly before the hierarchy of the first has arrived
ParentPayload(i) ==
    Payload("lei-records", "company", FALSE, i,
            [present |-> TRUE, links |-> LinkNames], NoRel, NoChildRel)
GroupPayload(i) ==
    Payload("lei-records", "company", FALSE, i,
            NoRel, NoRel, [present |-> TRUE, related |-> TRUE])
RerootSelections ==
    UNION {{<<parseCompanyFromGLEIF(ParentPayload(ij[1])), parseCompanyFromGLEIF(GroupPayload(ij[2]))>>,
            <<parseCompanyFromGLEIF(GroupPayload(ij[2])), parseCompanyFromGLEIF(ParentPayload(ij[1]))>>} :
              ij \in {p \in Ids \X Ids : p[1] # p[2]}}

HierInit(sels) ==
    /\ selections \in sels
    /\ company = Null
    /\ hierarchyData = Null
    /\ isLoading = TRUE
    /\ error = Null
    /\ loads = <<>>
    /\ lastLoad = Null

HierNext ==
    \/ \E c \in Roots : loadHierarchy(c)
    \/ \E r \in DOMAIN loads, resp \in Responses : FetchLeiRecord(r, resp)
    \/ \E r \in DOMAIN loads, resp \in Responses : FollowLink(r, resp)
    \/ \E r \in DOMAIN loads, resp \in Responses : FollowNested(r, resp)
    \/ \E r \in DOMAIN loads, resp \in ChildResponses : FetchChildren(r, resp)

\* ============================================== FileUploader / SupplierTable
Names == {"a", "b"}

\* setTimeout(resolve, 250)
delayMs == 250

\* supplier.company: undefined (never attempted), null (no match) or a company
Undefined == [kind |-> "undefined"]
Matched == [kind |-> "company"]

\* the rows of a CSV file that survive the filter of parseCSV: their names
Files == UNION {[1..n -> Names] : n \in 0..MaxRows}

\* the outcome of the name search: fetch or json() threw; no result; a first
\* result without attributes.entity; a first result with the given link
\* bundles of its parents
SearchResponses ==
    {Threw, Body(Null),
     Body(Payload("lei-records", "absent", FALSE, 1, NoRel, NoRel, NoChildRel))}
        \cup {Body(Payload("lei-records", "company", FALSE, 1, dp, up, NoChildRel)) :
                dp \in Rels, up \in Rels}

\* the outcome of the name search of a retry, whose continuation does not
\* depend on the link bundles of the result
RetryResponses ==
    {Threw, Body(Null)}
        \cup {Body(Payload("lei-records", a, FALSE, 1, NoRel, NoRel, NoChildRel)) :
                a \in {"absent", "company"}}

\* matchSuppliersWithGLEIF: is a parent relationship with some link present
hasParent(rel) == rel.present /\ rel.links # {}

\* matchSuppliersWithGLEIF: does the descriptor built for a relationship hold a
\* reportingException (the relationship-record link is looked at first)
hasReportingException(rel) ==
    /\ rel.present
    /\ "relationship-record" \notin rel.links
    /\ "reporting-exception" \in rel.links

\* suppliersToProcess: the whole input in input order, or sampleSize rows in
\* the order left by sort(() => 0.5 - Math.random())
Samples(n) ==
    IF n > sampleSize
    THEN {o \in [1..sampleSize -> 1..n] : \A j, k \in 1..sampleSize : j # k => o[j] # o[k]}
    ELSE {[k \in 1..n |-> k]}

setCompany(f, row, c) == [arrays EXCEPT ![f][row].company = c]

\* the row the loop is working on
current(b) == b.order[b.i]

\* variant: the rows left out of the sample are marked as failures
resetUnsampled_asFailures(rows, order) ==
    IF Len(rows) > Len(order)
    THEN [r \in DOMAIN rows |->
            IF \E k \in DOMAIN order : rows[order[k]].name = rows[r].name
            THEN rows[r]
            ELSE [rows[r] EXCEPT !.company = Null]]
    ELSE rows

\* variant: the rows whose name is among the processed names are reset
resetUnsampled_processedNames(rows, order) ==
    IF Len(rows) > Len(order)
    THEN [r \in DOMAIN rows |->
            IF \E k \in DOMAIN order : rows[order[k]].name = rows[r].name
            THEN [rows[r] EXCEPT !.company = Undefined]
            ELSE rows[r]]
    ELSE rows

\* after the loop: rows whose name is not among the processed names are reset
resetUnsampled(rows, order) ==
    IF Len(rows) > Len(order)
    THEN [r \in DOMAIN rows |->
            IF \E k \in DOMAIN order : rows[order[k]].name = rows[r].name
            THEN rows[r]
            ELSE [rows[r] EXCEPT !.company = Undefined]]
    ELSE rows

\* the end of an iteration: the next request is issued, or the loop is left,
\* matchSuppliersWithGLEIF returns and parseCSV calls onFileLoaded(suppliers)
nextIteration(f, b, arr) ==
    IF b.i < Len(b.order)
    THEN /\ batches' = [batches EXCEPT ![f] =
                [b EXCEPT !.i = b.i + 1, !.pc = "search", !.prefetched = "none",
                          !.requests = b.requests + 1]]
         /\ arrays' = arr
         /\ UNCHANGED <<suppliers, isLoaded>>
    ELSE /\ batches' = [batches EXCEPT ![f] =
                [b EXCEPT !.pc = "done", !.prefetched = "none"]]
         /\ arrays' = [arr EXCEPT ![f] = resetUnsampled(arr[f], b.order)]
         /\ suppliers' = f
         /\ isLoaded' = TRUE

\* processFile / parseCSV: a file is supplied while the FileUploader is mounted
processFile(file) ==
    /\ uploads # <<>>
    /\ file = Head(uploads)
    /\ ~isLoaded
    /\ uploads' = Tail(uploads)
    /\ IF file = <<>>
       THEN UNCHANGED <<arrays, batches>>
       ELSE \E order \in Samples(Len(file)) :
              /\ arrays' = Append(arrays,
                    [k \in DOMAIN file |-> [name |-> file[k], company |-> Undefined]])
              /\ batches' = Append(batches,
                    [pc |-> "search", order |-> order, i |-> 1,
                     prefetchUltimate |-> FALSE, prefetched |-> "none",
                     requests |-> 1, elapsedMs |-> 0])
    /\ UNCHANGED <<suppliers, isLoaded, retries, pendingMatches>>
    /\ UNCHANGED <<hierVars, callVars>>

\* variant: the catch block encloses the loop, a failure ends the batch
searchFailed_aborts(f, b) ==
    nextIteration(f, [b EXCEPT !.order = SubSeq(b.order, 1, b.i)],
                  setCompany(f, current(b), Null))

\* the catch block of the loop body
searchFailed(f, b) ==
    nextIteration(f, b, setCompany(f, current(b), Null))

\* the name search of the current row completes
SearchDone(f, resp) ==
    /\ f \in DOMAIN batches
    /\ batches[f].pc = "search"
    /\ LET b == batches[f]
       IN IF resp.threw THEN searchFailed(f, b)
          ELSE IF resp.data = Null
               THEN /\ arrays' = setCompany(f, current(b), Null)
                    /\ batches' = [batches EXCEPT ![f].pc = "delay"]
                    /\ UNCHANGED <<suppliers, isLoaded>>
          ELSE IF resp.data.attrs = "absent" THEN searchFailed(f, b)
          ELSE LET dp == resp.data.directParent
                   up == resp.data.ultimateParent
                   prefetch == (hasParent(dp) \/ hasParent(up)) /\ b.i - 1 < prefetchLimit
                   direct == prefetch /\ hasParent(dp) /\ hasReportingException(dp)
                   ultimate == prefetch /\ hasParent(up) /\ hasReportingException(up)
               IN /\ arrays' = setCompany(f, current(b), Matched)
                  /\ batches' = [batches EXCEPT ![f] =
                        [b EXCEPT !.pc = IF direct THEN "prefetchDirect"
                                         ELSE IF ultimate THEN "prefetchUltimate"
                                         ELSE "delay",
                                  !.prefetchUltimate = direct /\ ultimate]]
                  /\ UNCHANGED <<suppliers, isLoaded>>
    /\ UNCHANGED <<uploads, retries, pendingMatches>>
    /\ UNCHANGED <<hierVars, callVars>>

\* what the fetch of a reporting-exception link may give: it threw, a body
\* without data, a resource without attributes, an exception resource
PrefetchResponses ==
    {Threw, Body(Null)}
        \cup {Body(Payload("reporting-exceptions", a, FALSE, 1, NoRel, NoRel, NoChildRel)) :
                a \in {"absent", "exception"}}

\* history: the prefetch read a reason, or failed (thrown fetch, body
\* without attributes)
prefetchOutcome(resp) ==
    IF resp.threw \/ resp.data = Null \/ resp.data.attrs = "absent"
    THEN "failed" ELSE "read"

\* variant: the prefetch has no try block of its own, a thrown fetch reaches
\* the catch block of the loop body
prefetchSettled_escapes(f, row, resp) ==
    IF resp.threw THEN setCompany(f, row, Null) ELSE arrays

\* the arrays when a prefetch has settled: its own try / catch keeps a
\* failure from the record, a reason read only changes the descriptor's text
prefetchSettled(f, row, resp) == arrays

\* the fetch of the direct parent's reporting exception completes
PrefetchDirectDone(f, resp) ==
    /\ f \in DOMAIN batches
    /\ batches[f].pc = "prefetchDirect"
    /\ arrays' = prefetchSettled(f, current(batches[f]), resp)
    /\ batches' = [batches EXCEPT ![f].pc =
                      IF batches[f].prefetchUltimate THEN "prefetchUltimate" ELSE "delay",
                                  ![f].prefetchUltimate = FALSE,
                                  ![f].prefetched = prefetchOutcome(resp)]
    /\ UNCHANGED <<uploads, suppliers, isLoaded, retries, pendingMatches>>
    /\ UNCHANGED <<hierVars, callVars>>

\* the fetch of the ultimate parent's reporting exception completes
PrefetchUltimateDone(f, resp) ==
    /\ f \in DOMAIN batches
    /\ batches[f].pc = "prefetchUltimate"
    /\ arrays' = prefetchSettled(f, current(batches[f]), resp)
    /\ batches' = [batches EXCEPT ![f].pc = "delay",
                                  ![f].prefetched = prefetchOutcome(resp)]
    /\ UNCHANGED <<uploads, suppliers, isLoaded, retries, pendingMatches>>
    /\ UNCHANGED <<hierVars, callVars>>

\* the timer of setTimeout(resolve, 250) fires
DelayDone(f) ==
    /\ f \in DOMAIN batches
    /\ batches[f].pc = "delay"
    /\ nextIteration(f, [batches[f] EXCEPT !.elapsedMs = @ + delayMs], arrays)
    /\ UNCHANGED <<uploads, retries, pendingMatches>>
    /\ UNCHANGED <<hierVars, callVars>>

\* ----------------------------------------------- SupplierTable.refetchSupplier
\* the retry button of a row of the displayed array is clicked
refetchSupplier(row) ==
    /\ isLoaded
    /\ suppliers # 0
    /\ row \in DOMAIN arrays[suppliers]
    /\ arrays[suppliers][row].company \in {Undefined, Null}
    /\ arrays[suppliers][row].name \notin pendingMatches
    /\ pendingMatches' = pendingMatches \cup {arrays[suppliers][row].name}
    /\ retries' = retries \cup {[file |-> suppliers, row |-> row, pc |-> "search"]}
    /\ UNCHANGED <<uploads, arrays, batches, suppliers, isLoaded>>
    /\ UNCHANGED <<hierVars, callVars>>

\* variant: the marker is removed at the end of the try block only, not in a
\* finally block, so a retry that finds no match leaves it behind
retryFinished_noFinally(rt) ==
    /\ retries' = retries \ {rt}
    /\ pendingMatches' = IF arrays[rt.file][rt.row].company = Matched
                          THEN pendingMatches \ {arrays[rt.file][rt.row].name}
                          ELSE pendingMatches

\* the finally block: the name leaves pendingMatches
retryFinished(rt) ==
    /\ retries' = retries \ {rt}
    /\ pendingMatches' = pendingMatches \ {arrays[rt.file][rt.row].name}

\* the name search of a retry completes
RetrySearchDone(rt, resp) ==
    /\ rt \in retries
    /\ rt.pc = "search"
    /\ IF resp.threw \/ resp.data = Null \/ resp.data.attrs = "absent"
       THEN /\ arrays' = setCompany(rt.file, rt.row, Null)
            /\ retryFinished(rt)
       ELSE /\ arrays' = setCompany(rt.file, rt.row, Matched)
            /\ retries' = (retries \ {rt}) \cup {[rt EXCEPT !.pc = "children"]}
            /\ UNCHANGED pendingMatches
    /\ UNCHANGED <<uploads, batches, suppliers, isLoaded>>
    /\ UNCHANGED <<hierVars, callVars>>

\* variant: the children check has no try block of its own, a thrown fetch
\* reaches the catch block of refetchSupplier
childrenChecked_escapes(rt, resp) ==
    IF resp.threw THEN setCompany(rt.file, rt.row, Null) ELSE arrays

\* the arrays when the children check has settled: its own try / catch sets
\* company.hasChildren and nothing else
childrenChecked(rt, resp) == arrays

\* the children check of a retry completes (it only sets company.hasChildren)
RetryChildrenDone(rt, resp) ==
    /\ rt \in retries
    /\ rt.pc = "children"
    /\ arrays' = childrenChecked(rt, resp)
    /\ retryFinished(rt)
    /\ UNCHANGED <<uploads, batches, suppliers, isLoaded>>
    /\ UNCHANGED <<hierVars, callVars>>

BatchIdle ==
    /\ arrays = <<>>
    /\ batches = <<>>
    /\ suppliers = 0
    /\ isLoaded = FALSE
    /\ retries = {}
    /\ pendingMatches = {}

HierIdle ==
    /\ company = Null
    /\ hierarchyData = Null
    /\ isLoading = TRUE
    /\ error = Null
    /\ loads = <<>>
    /\ lastLoad = Null
    /\ selections = <<>>

\* no function is examined on its own
NoCall == [fn |-> "none", pc |-> "returned", first |-> Null, second |-> Null, result |-> Null]

BatchNext ==
    \/ \E file \in Files : processFile(file)
    \/ \E f \in DOMAIN batches, resp \in SearchResponses : SearchDone(f, resp)
    \/ \E f \in DOMAIN batches, resp \in PrefetchResponses : PrefetchDirectDone(f, resp)
    \/ \E f \in DOMAIN batches, resp \in PrefetchResponses : PrefetchUltimateDone(f, resp)
    \/ \E f \in DOMAIN batches : DelayDone(f)
    \/ \E row \in 1..MaxRows : refetchSupplier(row)
    \/ \E rt \in retries, resp \in RetryResponses : RetrySearchDone(rt, resp)
    \/ \E rt \in retries, resp \in {Threw, Body(Null)} : RetryChildrenDone(rt, resp)

\* ------------------------------------------------------------ specifications
\* the hierarchy of one root
Init == HierInit(Selections) /\ uploads = <<>> /\ BatchIdle /\ call = NoCall
Next == HierNext
Spec == Init /\ [][Next]_vars

\* re-rooting while a hierarchy is loading
InitReroot == HierInit(RerootSelections) /\ uploads = <<>> /\ BatchIdle /\ call = NoCall
SpecReroot == InitReroot /\ [][Next]_vars

\* one CSV file is uploaded, matched and retried row by row
InitBatch == HierIdle /\ uploads \in {<<file>> : file \in Files} /\ BatchIdle /\ call = NoCall
SpecBatch == InitBatch /\ [][BatchNext]_vars

\* a second one-row file is supplied while the FileUploader is still mounted
InitUpload ==
    /\ HierIdle
    /\ uploads \in {<<f, g>> : f \in [1..1 -> Names], g \in [1..1 -> Names]}
    /\ BatchIdle
    /\ call = NoCall
SpecUpload == InitUpload /\ [][BatchNext]_vars

\* ------------------------------------------ followRelationshipLink on its own
\* followRelationshipLink(linkUrl) is called; the registry decides what the
\* link and the nested lei-record link give
LinkCall == [fn |-> "followRelationshipLink", pc |-> "first",
             first |-> Null, second |-> Null, result |-> Null]

\* the fetch of linkUrl completes
LinkFirst(resp) ==
    /\ call.fn = "followRelationshipLink"
    /\ call.pc = "first"
    /\ call' = IF followsNested(resp)
               THEN [call EXCEPT !.pc = "second", !.first = resp]
               ELSE [call EXCEPT !.pc = "returned", !.first = resp,
                                 !.result = followRelationshipLink(resp)]
    /\ UNCHANGED <<hierVars, batchVars>>

\* variant: the record of the first hop is parsed after the second fetch
LinkSecond_intermediate(resp) ==
    /\ call.fn = "followRelationshipLink"
    /\ call.pc = "second"
    /\ call' = [call EXCEPT !.pc = "returned", !.second = resp,
                            !.result = followNestedLink(call.first)]
    /\ UNCHANGED <<hierVars, batchVars>>

\* the fetch of the nested lei-record link completes
LinkSecond(resp) ==
    /\ call.fn = "followRelationshipLink"
    /\ call.pc = "second"
    /\ call' = [call EXCEPT !.pc = "returned", !.second = resp,
                            !.result = followNestedLink(resp)]
    /\ UNCHANGED <<hierVars, batchVars>>

LinkNext ==
    \/ \E resp \in Responses : LinkFirst(resp)
    \/ \E resp \in Responses : LinkSecond(resp)

InitLink == HierIdle /\ uploads = <<>> /\ BatchIdle /\ call = LinkCall
SpecLink == InitLink /\ [][LinkNext]_vars

\* --------------------------------------- hierarchy of a batch-matched supplier
\* matchSuppliersWithGLEIF: the descriptor built for a parent relationship
\* (the relationship-record link is looked at first and stored as related)
BatchDescriptor(rel) ==
    IF ~rel.present THEN [present |-> FALSE, links |-> {}]
    ELSE IF "relationship-record" \in rel.links THEN [present |-> TRUE, links |-> {"related"}]
    ELSE IF "reporting-exception" \in rel.links
         THEN [present |-> TRUE, links |-> {"reportingException"}]
    ELSE IF "lei-record" \in rel.links THEN [present |-> TRUE, links |-> {"related"}]
    ELSE [present |-> FALSE, links |-> {}]

\* matchSuppliersWithGLEIF: the children descriptor
BatchChildren(rel) ==
    IF rel.present /\ rel.related THEN [present |-> TRUE, related |-> TRUE]
    ELSE [present |-> FALSE, related |-> FALSE]

\* matchSuppliersWithGLEIF: supplier.company built from the first search result
matchCompany(record) ==
    LET dp == BatchDescriptor(record.directParent)
        up == BatchDescriptor(record.ultimateParent)
        dc == BatchChildren(record.directChildren)
    IN [kind |-> "company",
        lei |-> record.id,
        hasDirectParent |-> dp.present,
        hasUltimateParent |-> up.present,
        hasChildren |-> dc.related,
        relationships |-> [directParent |-> dp, ultimateParent |-> up,
                           directChildren |-> dc]]

\* the first search results the registry may give for a supplier name
SearchRecords ==
    {Payload("lei-records", "company", FALSE, i, dp, up, dc) :
        i \in Ids, dp \in Rels, up \in Rels, dc \in ChildRels}

\* the search of a supplier has returned record and the batch has built its
\* company
MatchCall(record) ==
    [fn |-> "matchSuppliersWithGLEIF", pc |-> "returned",
     first |-> Body(record), second |-> Null, result |-> matchCompany(record)]

\* the user selects a matched supplier and its company is handed to the
\* hierarchy view
InitSupplier ==
    /\ \E record \in SearchRecords :
          /\ call = MatchCall(record)
          /\ selections = <<matchCompany(record)>>
    /\ company = Null
    /\ hierarchyData = Null
    /\ isLoading = TRUE
    /\ error = Null
    /\ loads = <<>>
    /\ lastLoad = Null
    /\ uploads = <<>>
    /\ BatchIdle

\* a descriptor of the batch never holds a leiRecord or a relationshipRecord,
\* so only the reporting-exception link is ever followed
SupplierNext ==
    \/ \E record \in SearchRecords : loadHierarchy(matchCompany(record))
    \/ \E r \in DOMAIN loads, resp \in Responses : FollowLink(r, resp)
    \/ \E r \in DOMAIN loads, resp \in Responses : FollowNested(r, resp)
    \/ \E r \in DOMAIN loads, resp \in ChildResponses : FetchChildren(r, resp)

SpecSupplier == InitSupplier /\ [][SupplierNext]_vars

\* -------------------------------------------- parseCompanyFromGLEIF on its own
\* the payloads the parser may be given: nothing, a resource found behind a
\* link, or a company record with its relationship bundles
ParserInputs == {Null} \cup Resources \cup RootPayloads

\* the call has thrown
Thrown == [kind |-> "thrown"]

ParseCall(data) ==
    [fn |-> "parseCompanyFromGLEIF", pc |-> "called",
     first |-> data, second |-> Null, result |-> Null]

\* parseCompanyFromGLEIF(data) runs to its return or to the TypeError
Parse ==
    /\ call.fn = "parseCompanyFromGLEIF"
    /\ call.pc = "called"
    /\ call' = [call EXCEPT !.pc = "returned",
                            !.result = IF parseCompanyThrows(call.first) THEN Thrown
                                       ELSE parseCompanyFromGLEIF(call.first)]
    /\ UNCHANGED <<hierVars, batchVars>>

ParseNext == Parse

InitParse ==
    /\ HierIdle /\ uploads = <<>> /\ BatchIdle
    /\ call \in {ParseCall(data) : data \in ParserInputs}
SpecParse == InitParse /\ [][ParseNext]_vars

\* ------------------------------------- the single-name algorithm, batch and retry
\* refetchSupplier: the descriptor built for a parent relationship (every
\* link of the bundle is copied)
RetryDescriptor(rel) ==
    [present |-> rel.present,
     links |-> {l \in {"relationshipRecord", "leiRecord", "reportingException"} :
                  \/ l = "relationshipRecord" /\ "relationship-record" \in rel.links
                  \/ l = "leiRecord" /\ "lei-record" \in rel.links
                  \/ l = "reportingException" /\ "reporting-exception" \in rel.links}]

\* refetchSupplier: hasDirectParent / hasUltimateParent (set by the lei-record
\* link, cleared by the reporting-exception link)
retryHasParent(rel) ==
    rel.present /\ "lei-record" \in rel.links /\ "reporting-exception" \notin rel.links

\* refetchSupplier: directParentException / ultimateParentException
retryHasException(rel) ==
    rel.present /\ "reporting-exception" \in rel.links

\* refetchSupplier: supplier.company built from the first search result
retryCompany(record) ==
    [kind |-> "company",
     lei |-> record.id,
     hasDirectParent |-> retryHasParent(record.directParent),
     hasUltimateParent |-> retryHasParent(record.ultimateParent),
     hasChildren |-> (record.directChildren.present /\ record.directChildren.related),
     directParentException |-> retryHasException(record.directParent),
     ultimateParentException |-> retryHasException(record.ultimateParent),
     relationships |-> [directParent |-> RetryDescriptor(record.directParent),
                        ultimateParent |-> RetryDescriptor(record.ultimateParent),
                        directChildren |-> record.directChildren]]

\* the responses the name search may give: it threw, no result, a first
\* result without attributes.entity, a first result
NameResponses ==
    {Threw, Body(Null),
     Body(Payload("lei-records", "absent", FALSE, 1, NoRel, NoRel, NoChildRel))}
        \cup {Body(record) : record \in SearchRecords}

\* supplier.company after the loop body of the batch, for a search response
batchOutcome(resp) ==
    IF resp.threw \/ resp.data = Null \/ resp.data.attrs = "absent" THEN Null
    ELSE matchCompany(resp.data)

\* supplier.company after refetchSupplier's search, for a search response
retryOutcome(resp) ==
    IF resp.threw \/ resp.data = Null \/ resp.data.attrs = "absent" THEN Null
    ELSE retryCompany(resp.data)

NotRun == [kind |-> "not-run"]

\* one search response is handed to both algorithms
NameCall(resp) ==
    [fn |-> "singleName", pc |-> "called", first |-> resp,
     second |-> NotRun, result |-> NotRun]

\* the batch works on the response (its outcome is kept in result)
MatchByBatch ==
    /\ call.fn = "singleName"
    /\ call.result = NotRun
    /\ call' = [call EXCEPT !.result = batchOutcome(call.first),
                            !.pc = IF call.second = NotRun THEN "called" ELSE "returned"]
    /\ UNCHANGED <<hierVars, batchVars>>

\* a retry works on the response (its outcome is kept in second)
MatchByRetry ==
    /\ call.fn = "singleName"
    /\ call.second = NotRun
    /\ call' = [call EXCEPT !.second = retryOutcome(call.first),
                            !.pc = IF call.result = NotRun THEN "called" ELSE "returned"]
    /\ UNCHANGED <<hierVars, batchVars>>

NameNext == MatchByBatch \/ MatchByRetry

InitName ==
    /\ HierIdle /\ uploads = <<>> /\ BatchIdle
    /\ call \in {NameCall(resp) : resp \in NameResponses}
SpecName == InitName /\ [][NameNext]_vars

\* --------------------------------------- the hierarchy of a retried supplier
\* refetchSupplier: supplier.company once the children check has settled
\* (hasChildren is overwritten with what the check found)
retriedCompany(record, found) ==
    LET c == retryCompany(record)
    IN [kind |-> c.kind,
        lei |-> c.lei,
        hasDirectParent |-> c.hasDirectParent,
        hasUltimateParent |-> c.hasUltimateParent,
        hasChildren |-> found,
        directParentException |-> c.directParentException,
        ultimateParentException |-> c.ultimateParentException,
        relationships |-> c.relationships]

\* the retry of a supplier has matched record and its children check has
\* settled
RetryCall(record, found) ==
    [fn |-> "refetchSupplier", pc |-> "returned",
     first |-> Body(record), second |-> [kind |-> "children", found |-> found],
     result |-> retriedCompany(record, found)]

\* the user selects the retried supplier and its company is handed to the
\* hierarchy view
InitRetried ==
    /\ \E record \in SearchRecords, found \in BOOLEAN :
          /\ call = RetryCall(record, found)
          /\ selections = <<retriedCompany(record, found)>>
    /\ company = Null
    /\ hierarchyData = Null
    /\ isLoading = TRUE
    /\ error = Null
    /\ loads = <<>>
    /\ lastLoad = Null
    /\ uploads = <<>>
    /\ BatchIdle

RetriedNext ==
    \/ \E record \in SearchRecords, found \in BOOLEAN :
            loadHierarchy(retriedCompany(record, found))
    \/ \E r \in DOMAIN loads, resp \in Responses : FetchLeiRecord(r, resp)
    \/ \E r \in DOMAIN loads, resp \in Responses : FollowLink(r, resp)
    \/ \E r \in DOMAIN loads, resp \in Responses : FollowNested(r, resp)
    \/ \E r \in DOMAIN loads, resp \in ChildResponses : FetchChildren(r, resp)

SpecRetried == InitRetried /\ [][RetriedNext]_vars

\* ------------------------------------------- fetchDirectChildren on its own
\* page[size] of the listing URL built from the LEI (10 in the source, scaled)
pageSize == 1

\* the URL fetched: the registry's direct-children link as it was given, or
\* the listing URL built from the LEI, which asks for a page of pageSize
childrenUrl(lei, directChildrenUrl) ==
    IF directChildrenUrl
    THEN [kind |-> "url", lei |-> lei, related |-> TRUE, sized |-> FALSE]
    ELSE [kind |-> "url", lei |-> lei, related |-> FALSE, sized |-> TRUE]

\* the records a page of the listing may hold
ChildRecords ==
    {Payload("lei-records", a, FALSE, i, NoRel, NoRel, NoChildRel) :
        i \in Ids, a \in Attrs}

\* the pages of at most n records
Pages(n) == UNION {[1..k -> ChildRecords] : k \in 0..n}

\* what the fetch of a listing URL may give: the registry keeps to the page
\* size it is asked for, and to its own otherwise
PageResponses(url) ==
    {Threw, Body(Null)}
        \cup {Body(Listing(l)) : l \in Pages(IF url.sized THEN pageSize ELSE MaxChildren)}

ChildrenCall(lei, directChildrenUrl) ==
    [fn |-> "fetchDirectChildren", pc |-> "called",
     first |-> childrenUrl(lei, directChildrenUrl), second |-> Null, result |-> Null]

\* fetchDirectChildren(lei, directChildrenUrl): the fetch settles and the
\* function returns its children array
FetchDirectChildren(resp) ==
    /\ call.fn = "fetchDirectChildren"
    /\ call.pc = "called"
    /\ resp \in PageResponses(call.first)
    /\ call' = [call EXCEPT !.pc = "returned",
                            !.second = resp,
                            !.result = Listing(fetchDirectChildren(resp))]
    /\ UNCHANGED <<hierVars, batchVars>>

ChildrenNext ==
    \E resp \in PageResponses(call.first) : FetchDirectChildren(resp)

InitChildren ==
    /\ HierIdle /\ uploads = <<>> /\ BatchIdle
    /\ call \in {ChildrenCall(lei, directChildrenUrl) :
                    lei \in Ids, directChildrenUrl \in BOOLEAN}
SpecChildren == InitChildren /\ [][ChildrenNext]_vars

\* ------------------------- descriptor extraction, parser and batch matcher
\* one registry record is handed to the parser and to the batch matcher
ExtractCall(record) ==
    [fn |-> "extract", pc |-> "called", first |-> record,
     second |-> NotRun, result |-> NotRun]

\* parseCompanyFromGLEIF builds its company (kept in result)
ExtractByParser ==
    /\ call.fn = "extract"
    /\ call.result = NotRun
    /\ call' = [call EXCEPT !.result = parseCompanyFromGLEIF(call.first),
                            !.pc = IF call.second = NotRun THEN "called" ELSE "returned"]
    /\ UNCHANGED <<hierVars, batchVars>>

\* matchSuppliersWithGLEIF builds its company (kept in second)
ExtractByBatch ==
    /\ call.fn = "extract"
    /\ call.second = NotRun
    /\ call' = [call EXCEPT !.second = matchCompany(call.first),
                            !.pc = IF call.result = NotRun THEN "called" ELSE "returned"]
    /\ UNCHANGED <<hierVars, batchVars>>

ExtractNext == ExtractByParser \/ ExtractByBatch

InitExtract ==
    /\ HierIdle /\ uploads = <<>> /\ BatchIdle
    /\ call \in {ExtractCall(record) : record \in SearchRecords}
SpecExtract == InitExtract /\ [][ExtractNext]_vars

\* ------------------------------------------------------- address formatting
\* a string value of the payload
Text(s) == [kind |-> "text", text |-> s]

\* legalAddress.addressLines: missing, or a list of lines
Lines(l) == [kind |-> "lines", items |-> l]
AddressLines ==
    {Null, Lines(<<>>), Lines(<<"1 Main St">>), Lines(<<"1 Main St", "Floor 2">>)}

\* a scalar component: missing, empty, or a value
Component(s) == {Null, Text(""), Text(s)}

\* entity.legalAddress
Addresses ==
    {[kind |-> "address", addressLines |-> l, city |-> c, region |-> r,
      country |-> n, postalCode |-> p] :
        l \in AddressLines, c \in Component("Berlin"), r \in Component("DE-BE"),
        n \in Component("DE"), p \in Component("10115")}

\* Array.prototype.join(', ') on strings
RECURSIVE join(_)
join(parts) ==
    IF parts = <<>> THEN ""
    ELSE IF Len(parts) = 1 THEN Head(parts)
    ELSE Head(parts) \o ", " \o join(Tail(parts))

\* legalAddress.addressLines?.join(', ')
joinLines(l) == IF l = Null THEN Null ELSE Text(join(l.items))

\* Boolean(x) of a string or a missing value
truthy(x) == x # Null /\ x.text # ""

\* addressParts.filter(Boolean).join(', ')
formatParts(parts) ==
    LET kept == SelectSeq(parts, truthy)
    IN  Text(join([k \in DOMAIN kept |-> kept[k].text]))

\* parseCompanyFromGLEIF: formattedAddress
parserAddress(a) ==
    formatParts(<<joinLines(a.addressLines), a.city, a.region, a.country, a.postalCode>>)

\* matchSuppliersWithGLEIF and refetchSupplier: formattedAddress
matcherAddress(a) ==
    formatParts(<<joinLines(a.addressLines), a.city, a.region, a.postalCode, a.country>>)

\* one legal address is handed to the parser and to the name matcher
AddressCall(a) ==
    [fn |-> "formatAddress", pc |-> "called", first |-> a,
     second |-> NotRun, result |-> NotRun]

\* the parser formats the address (kept in result)
FormatByParser ==
    /\ call.fn = "formatAddress"
    /\ call.result = NotRun
    /\ call' = [call EXCEPT !.result = parserAddress(call.first),
                            !.pc = IF call.second = NotRun THEN "called" ELSE "returned"]
    /\ UNCHANGED <<hierVars, batchVars>>

\* the name matcher formats the address (kept in second)
FormatByMatcher ==
    /\ call.fn = "formatAddress"
    /\ call.second = NotRun
    /\ call' = [call EXCEPT !.second = matcherAddress(call.first),
                            !.pc = IF call.result = NotRun THEN "called" ELSE "returned"]
    /\ UNCHANGED <<hierVars, batchVars>>

AddressNext == FormatByParser \/ FormatByMatcher

InitAddress ==
    /\ HierIdle /\ uploads = <<>> /\ BatchIdle
    /\ call \in {AddressCall(a) : a \in Addresses}
SpecAddress == InitAddress /\ [][AddressNext]_vars

\* the batch and the retries of the one file, the fetch each retry waits for
\* settling: its promise resolves or rejects and the continuation of
\* refetchSupplier runs
SpecRetry ==
    /\ InitBatch
    /\ [][BatchNext]_vars
    /\ \A r \in 1..MaxRows :
          /\ WF_vars(\E resp \in RetryResponses :
                        RetrySearchDone([file |-> 1, row |-> r, pc |-> "search"], resp))
          /\ WF_vars(\E resp \in {Threw, Body(Null)} :
                        RetryChildrenDone([file |-> 1, row |-> r, pc |-> "children"], resp))

\* ===================================================================== claims
Slots == {"direct", "ultimate"}

parentOf(h, slot) == IF slot = "direct" THEN h.directParent ELSE h.ultimateParent
exceptionOf(h, slot) ==
    IF slot = "direct" THEN h.directParentException ELSE h.ultimateParentException

\* the views built so far: the displayed one and the one of every load
Views == {loads[r].data : r \in DOMAIN loads}
            \cup (IF hierarchyData = Null THEN {} ELSE {hierarchyData})

\* C1: in every HierarchyView, for each parent slot (direct, ultimate), at most
\* one of the parent entity and the parent reporting exception is non-null.
C1_AtMostOnePerSlot ==
    \A h \in Views, slot \in Slots :
        ~(parentOf(h, slot) # Null /\ exceptionOf(h, slot) # Null)

\* a returned view holding an exception in one slot and an entity in the other
C1_Witness ==
    /\ hierarchyData # Null
    /\ hierarchyData.directParentException # Null
    /\ hierarchyData.ultimateParent # Null

\* the links of precedence higher than l
HigherLinks(l) ==
    IF l = "leiRecord" THEN {}
    ELSE IF l = "reportingException" THEN {"leiRecord"}
    ELSE {"leiRecord", "reportingException"}

Tried(log, l) == \E k \in DOMAIN log : log[k].link = l
Resolved(log, l) ==
    \E k \in DOMAIN log : log[k].link = l /\ log[k].outcome \in {"entity", "exception"}

\* the resolution of a slot ran (its has-parent flag was set)
Entered(ld, slot) ==
    IF slot = "direct" THEN ld.company.hasDirectParent ELSE ld.company.hasUltimateParent
DescriptorOf(ld, slot) ==
    IF slot = "direct" THEN ld.company.relationships.directParent
    ELSE ld.company.relationships.ultimateParent

\* C2: the candidate links of a descriptor are tried in the precedence
\* lei-record, reporting-exception, relationship-record, and the outcome is
\* that of the first of them that resolves: a link is tried exactly when no
\* link of higher precedence has resolved.
C2_FirstResolvingLinkWins ==
    lastLoad # Null =>
        \A slot \in Slots :
            Entered(lastLoad, slot) =>
                \A l \in DescriptorOf(lastLoad, slot).links :
                    Tried(lastLoad.log[slot], l)
                        <=> ~\E h \in HigherLinks(l) : Resolved(lastLoad.log[slot], h)

\* C3: if the direct-parent fetch throws, the view has directParent = null,
\* directParentException = null and its partial/error indicator set.
C3_DirectParentThrowSetsPartial ==
    (/\ lastLoad # Null
     /\ \E k \in DOMAIN lastLoad.log.direct :
           /\ lastLoad.log.direct[k].link = "leiRecord"
           /\ lastLoad.log.direct[k].outcome = "threw")
    => /\ lastLoad.data.directParent = Null
       /\ lastLoad.data.directParentException = Null
       /\ lastLoad.data.error # Null

\* C4: once every started load has completed, the displayed view is the one
\* of the root selected last, never the one of a superseded request.
C4_SupersededResultDiscarded ==
    (/\ selections = <<>>
     /\ loads # <<>>
     /\ \A r \in DOMAIN loads : loads[r].pc = "done")
    => hierarchyData.current = company

\* ----------------------------------------------------------------- batch
sampled(b) == {b.order[k] : k \in DOMAIN b.order}
attempted(rows) == {r \in DOMAIN rows : rows[r].company \in {Null, Matched}}
notAttempted(rows) == {r \in DOMAIN rows : rows[r].company = Undefined}
completes(f) == batches[f].pc # "done" /\ batches'[f].pc = "done"

\* C5: for a batch of N names with N above the cap, when
\* matchSuppliersWithGLEIF completes exactly sampleSize records are Matched or
\* NoMatch and exactly N - sampleSize are NotAttempted; no step of the batch
\* marks a record outside the sample NoMatch
C5_SampleCounted ==
    [][\A f \in DOMAIN batches :
         batches[f].pc # "done" =>
           /\ \A r \in DOMAIN arrays[f] \ sampled(batches[f]) :
                 arrays'[f][r].company = Undefined
           /\ (completes(f) /\ Len(arrays[f]) > sampleSize) =>
                 /\ Cardinality(attempted(arrays'[f])) = sampleSize
                 /\ Cardinality(notAttempted(arrays'[f])) = Len(arrays[f]) - sampleSize]_vars

C5_Witness ==
    \E f \in DOMAIN batches :
        /\ batches[f].pc = "done"
        /\ Len(arrays[f]) > sampleSize
        /\ retries = {}
        /\ Cardinality(attempted(arrays[f])) = sampleSize
        /\ \E r \in DOMAIN arrays[f] \ sampled(batches[f]) :
              /\ arrays[f][r].company = Undefined
              /\ \A k \in sampled(batches[f]) : arrays[f][k].name # arrays[f][r].name
        /\ \E k \in sampled(batches[f]) : arrays[f][k].company = Null

\* C6: the name searches of a batch are issued in input order: of two records
\* both queried, the one earlier in the input is queried first, also when a
\* sample is taken
C6_InputOrder ==
    \A f \in DOMAIN batches :
        \A j, k \in 1..batches[f].i :
            j < k => batches[f].order[j] < batches[f].order[k]

\* C7: at most one batch name search is in flight and at most one batch loop
\* is running, whatever the user does, a second CSV file included
C7_SingleBatch ==
    /\ Cardinality({f \in DOMAIN batches : batches[f].pc = "search"}) <= 1
    /\ Cardinality({f \in DOMAIN batches : batches[f].pc # "done"}) <= 1

\* C8: between two consecutive name searches of a batch the 250 ms delay
\* elapses whatever the outcome of the earlier one, so that N searches take
\* at least N x 250 ms
C8_DelayBetweenRequests ==
    \A f \in DOMAIN batches :
        /\ batches[f].elapsedMs >= (batches[f].requests - 1) * delayMs
        /\ batches[f].pc = "done" =>
              batches[f].elapsedMs >= Len(batches[f].order) * delayMs

\* C9: a failure on one name (thrown error or zero results) sets only that
\* record to NoMatch and the loop goes on with the next name; when the batch
\* completes every sampled record is Matched or NoMatch
C9_FailureIsolated ==
    [][\A f \in DOMAIN batches :
         LET b == batches[f]
             cur == current(b)
         IN /\ (/\ b.pc = "search"
                /\ arrays[f][cur].company = Undefined
                /\ arrays'[f][cur].company = Null) =>
                  /\ \A r \in DOMAIN arrays[f] \ {cur} : arrays'[f][r] = arrays[f][r]
                  /\ \/ batches'[f].pc = "delay" /\ batches'[f].i = b.i
                     \/ batches'[f].pc = "search" /\ batches'[f].i = b.i + 1
                     \/ batches'[f].pc = "done" /\ b.i = Len(b.order)
            /\ completes(f) =>
                  \A r \in sampled(b) : arrays'[f][r].company \in {Null, Matched}]_vars

C9_Witness ==
    \E f \in DOMAIN batches :
        /\ batches[f].pc = "done"
        /\ retries = {}
        /\ Len(batches[f].order) >= 2
        /\ batches[f].elapsedMs = (Len(batches[f].order) - 1) * delayMs
        /\ arrays[f][batches[f].order[1]].company = Null
        /\ arrays[f][batches[f].order[2]].company = Matched

\* C10: a record that has become Matched or NoMatch is never set back to
\* NotAttempted by a later step of the batch (the reset by name included) or
\* of a retry, also when rows share a name
C10_NeverReverts ==
    [][\A f \in DOMAIN arrays : \A r \in DOMAIN arrays[f] :
         arrays[f][r].company # Undefined => arrays'[f][r].company # Undefined]_vars

C10_Witness ==
    \E f \in DOMAIN batches :
        /\ batches[f].pc = "done"
        /\ Len(arrays[f]) > sampleSize
        /\ \E s \in sampled(batches[f]), u \in DOMAIN arrays[f] \ sampled(batches[f]) :
              /\ arrays[f][s].name = arrays[f][u].name
              /\ arrays[f][s].company = Matched
              /\ arrays[f][u].company = Null

\* ----------------------------------------------------------------- retry
retriable(r) == arrays[suppliers][r].company \in {Undefined, Null}
retrying(f, r) == \E rt \in retries : rt.file = f /\ rt.row = r

\* C11: at most one retry is in flight for a row, and a pending retry on one
\* row never blocks a retry on a different row, a row with the same supplier
\* name included
C11_RetryPerRow ==
    /\ \A rt1, rt2 \in retries :
          (rt1.file = rt2.file /\ rt1.row = rt2.row) => rt1 = rt2
    /\ (isLoaded /\ suppliers # 0) =>
          \A r \in DOMAIN arrays[suppliers] :
              (retriable(r) /\ ~retrying(suppliers, r)) =>
                  arrays[suppliers][r].name \notin pendingMatches

\* ------------------------------------------------------- link resolver
returned == call.fn = "followRelationshipLink" /\ call.pc = "returned"
firstIsException ==
    ~call.first.threw /\ call.first.data # Null
        /\ call.first.data.type = "reporting-exceptions"
tagged(t) == call.result # Null /\ call.result.type = t

\* C12 as stated: whenever the link target is a reporting-exception resource
\* the result is tagged exception
C12_ExceptionTagged ==
    (returned /\ firstIsException) => tagged("exception")

\* C12, amended: whenever the link target is a reporting-exception resource
\* the result is never tagged lei-record, a nested lei-record link
\* notwithstanding; it is tagged exception unless the parser throws on the
\* resource (attributes without category), in which case it is null
C12_ExceptionNeverEntity ==
    (returned /\ firstIsException) =>
        /\ ~tagged("lei-record")
        /\ call.second = Null
        /\ IF parseExceptionThrows(call.first.data)
           THEN call.result = Null
           ELSE tagged("exception")

C12_Witness ==
    /\ returned
    /\ firstIsException
    /\ call.first.data.nested
    /\ tagged("exception")
    /\ call.result.data # Null

\* a terminal entity record: an lei-record with well-formed attributes
terminalEntity(resp) ==
    resp # Null /\ ~resp.threw /\ resp.data # Null
        /\ resp.data.type = "lei-records" /\ resp.data.attrs = "company"

\* C13: when the link target is a relationship record with a nested
\* lei-record link to a terminal entity record, the second fetch follows the
\* link and the result is tagged lei-record with the terminal record's
\* fields, not the relationship record's
C13_TwoHopEntity ==
    (/\ returned
     /\ ~call.first.threw /\ call.first.data # Null
     /\ call.first.data.type = "relationship-records"
     /\ call.first.data.nested
     /\ terminalEntity(call.second)) =>
        /\ tagged("lei-record")
        /\ call.result.data = parseCompanyFromGLEIF(call.second.data)
        /\ call.result.data.lei = call.second.data.id

C13_Witness ==
    /\ returned
    /\ ~call.first.threw /\ call.first.data # Null
    /\ call.first.data.type = "relationship-records"
    /\ call.first.data.attrs = "company"
    /\ terminalEntity(call.second)
    /\ call.first.data.id # call.second.data.id
    /\ tagged("lei-record")
    /\ call.result.data.lei = call.second.data.id

\* a hop that gives no usable record: transport failure, no data member, a
\* parser that throws or finds no attributes
hopFailed(resp, exception) ==
    \/ resp.threw
    \/ resp.data = Null
    \/ resp.data.attrs = "absent"
    \/ IF exception THEN parseExceptionThrows(resp.data)
       ELSE parseCompanyThrows(resp.data)

\* C14: a transport or parse failure at either hop, or a response of an
\* unrecognised shape, yields null
C14_FailureYieldsNull ==
    returned =>
        /\ (call.second = Null /\ hopFailed(call.first, firstIsException))
              => call.result = Null
        /\ (call.second = Null /\ ~call.first.threw /\ call.first.data # Null
              /\ call.first.data.type = "relationship-records")
              => call.result = Null
        /\ (call.second # Null /\ hopFailed(call.second, FALSE))
              => call.result = Null

\* ------------------------------------------------------ hierarchy assembler
awaiting(ld) == ld.pc \in {"lei", "exc", "exc2", "rel", "rel2", "children"}

\* C15: fetchCorporateHierarchy never throws: whatever fails in its three
\* branches, a call is either waiting for a fetch to settle or has returned
\* a view of its root, with loading switched off
C15_AlwaysReturnsView ==
    \A r \in DOMAIN loads :
        \/ awaiting(loads[r])
        \/ /\ loads[r].pc = "done"
           /\ loads[r].data # Null
           /\ loads[r].data.current = loads[r].company
           /\ loads[r].data.loading = FALSE

C15_Witness ==
    \E r \in DOMAIN loads :
        /\ loads[r].pc = "done"
        /\ \E k \in DOMAIN loads[r].log.direct : loads[r].log.direct[k].outcome = "threw"
        /\ \E k \in DOMAIN loads[r].log.ultimate :
              loads[r].log.ultimate[k].outcome = "parse-error"
        /\ loads[r].company.hasChildren
        /\ loads[r].data.children = <<>>
        /\ hierarchyData = loads[r].data

\* -------------------------------------------------------------- end to end
triedLink(ld, slot, link) ==
    \E k \in DOMAIN ld.log[slot] : ld.log[slot][k].link = link
resolvedAs(ld, slot, link, outcome) ==
    \E k \in DOMAIN ld.log[slot] :
        ld.log[slot][k].link = link /\ ld.log[slot][k].outcome = outcome

\* C16: for a supplier matched by the batch whose registry record carries a
\* reporting-exception link for its direct parent, whatever other links come
\* with it, the hierarchy follows that link, and when it resolves to an
\* exception the view has directParent = null and that exception
C16_ExceptionEndToEnd ==
    \A r \in DOMAIN loads :
        (/\ loads[r].pc = "done"
         /\ call.fn = "matchSuppliersWithGLEIF"
         /\ loads[r].company = call.result
         /\ call.first.data.directParent.present
         /\ "reporting-exception" \in call.first.data.directParent.links) =>
            /\ triedLink(loads[r], "direct", "reportingException")
            /\ resolvedAs(loads[r], "direct", "reportingException", "exception") =>
                  /\ loads[r].data.directParent = Null
                  /\ hierarchyData.directParent = Null
                  /\ hierarchyData.directParentException = loads[r].data.directParentException

\* ------------------------------------------------------------------ parser
parsed == call.fn = "parseCompanyFromGLEIF" /\ call.pc = "returned"

\* C17: parseCompanyFromGLEIF returns null and does not throw for every
\* payload that is null/undefined or has no attributes
C17_NoAttributesIsNull ==
    (parsed /\ (call.first = Null \/ call.first.attrs = "absent")) =>
        call.result = Null

C17_Witness ==
    /\ parsed
    /\ call.first # Null
    /\ call.first.attrs = "absent"
    /\ call.first.type = "lei-records"
    /\ call.result = Null

\* C18: parseCompanyFromGLEIF never throws: a payload with attributes but
\* without the nested entity structure yields null
C18_MalformedIsNull ==
    parsed =>
        /\ call.result # Thrown
        /\ (call.first # Null /\ call.first.attrs = "exception") => call.result = Null

\* ---------------------------------------------------------------- re-rooting
ViewFields ==
    {"current", "directParent", "directParentException",
     "ultimateParent", "ultimateParentException", "children"}

\* C19: once the hierarchy of the root selected last has been loaded, every
\* field of the displayed view is the one its resolution call produced; no
\* field of a view of an earlier root remains
C19_ViewReplacedWholesale ==
    (loads # <<>> /\ loads[Len(loads)].pc = "done") =>
        /\ hierarchyData # Null
        /\ \A fld \in ViewFields : hierarchyData[fld] = loads[Len(loads)].data[fld]

\* ------------------------------------------------------ batch against retry
matchState(c) == IF c = Null THEN "NoMatch" ELSE "Matched"

\* C20: for the same search response the batch and a retry leave the record
\* in the same match state, with the same hasDirectParent / hasUltimateParent
\* flags and the same relationship descriptors
C20_SameAlgorithm ==
    (call.fn = "singleName" /\ call.pc = "returned") =>
        /\ matchState(call.result) = matchState(call.second)
        /\ call.result # Null =>
              /\ call.result.lei = call.second.lei
              /\ call.result.hasDirectParent = call.second.hasDirectParent
              /\ call.result.hasUltimateParent = call.second.hasUltimateParent
              /\ call.result.relationships.directParent
                    = call.second.relationships.directParent
              /\ call.result.relationships.ultimateParent
                    = call.second.relationships.ultimateParent

\* a call of fetchCorporateHierarchy that has returned
finished(ld) == ld.pc = "done"

\* C21: whenever the root's descriptor of a parent slot is present with some
\* link, the assembler attempts the resolution of that slot; a descriptor
\* carrying only the relationship-record link has that link followed.
C21_LinkedBranchAttempted ==
    \A r \in DOMAIN loads, slot \in Slots :
        LET ld == loads[r]
            d == DescriptorOf(ld, slot)
        IN  (finished(ld) /\ d.present /\ d.links # {}) =>
                /\ ld.log[slot] # <<>>
                /\ (d.links = {"relationshipRecord"} =>
                        triedLink(ld, slot, "relationshipRecord"))

\* C22: a resolved parent is stored according to the tag the resolver
\* returned: a reporting exception found behind the relationship-record link
\* is held by the view as the slot's exception, with no entity, and an entity
\* found behind the reporting-exception link is held as the slot's entity.
C22_StoredByReturnedTag ==
    \A r \in DOMAIN loads, slot \in Slots :
        LET ld == loads[r]
        IN  finished(ld) =>
                /\ (resolvedAs(ld, slot, "relationshipRecord", "got-exception") =>
                        /\ exceptionOf(ld.data, slot) # Null
                        /\ parentOf(ld.data, slot) = Null)
                /\ (resolvedAs(ld, slot, "reportingException", "got-entity") =>
                        parentOf(ld.data, slot) # Null)

\* the has-parent flag of a company for a slot
hasParentFlag(c, slot) ==
    IF slot = "direct" THEN c.hasDirectParent ELSE c.hasUltimateParent

\* C23: for a company built by a manual retry whose descriptor of a parent
\* slot carries a reporting-exception link, the has-parent flag is the one
\* the parser derives from the same record, and the assembler resolves the
\* slot: it follows a link of the descriptor.
C23_RetriedExceptionResolved ==
    \A r \in DOMAIN loads, slot \in Slots :
        LET ld == loads[r]
        IN  (/\ call.fn = "refetchSupplier"
             /\ finished(ld)
             /\ "reportingException" \in DescriptorOf(ld, slot).links) =>
                /\ hasParentFlag(ld.company, slot)
                      = hasParentFlag(parseCompanyFromGLEIF(call.first.data), slot)
                /\ ld.log[slot] # <<>>

\* a call of fetchDirectChildren has returned for a page of records
listed ==
    /\ call.fn = "fetchDirectChildren"
    /\ call.pc = "returned"
    /\ ~call.second.threw
    /\ call.second.data # Null

\* a record of the listing with attributes, entity and legal address
wellFormedChild(child) == child.attrs = "company"

\* C24: fetchDirectChildren parses each listed child on its own: the children
\* returned are the well-formed records of the page, all of them and in the
\* order of the page, whatever malformed records stand between them.
C24_ChildrenParsedIndependently ==
    listed =>
        LET kept == SelectSeq(call.second.data.items, wellFormedChild)
        IN  call.result.items = [k \in DOMAIN kept |-> parseCompanyFromGLEIF(kept[k])]

\* C25: the children list handed to the view holds at most pageSize entries,
\* whether the listing URL was built from the LEI or was the registry's
\* direct-children link.
C25_ChildrenWithinPage ==
    (call.fn = "fetchDirectChildren" /\ call.pc = "returned") =>
        Len(call.result.items) <= pageSize

\* the link bundle of a registry record for a parent slot
bundleOf(record, slot) ==
    IF slot = "direct" THEN record.directParent ELSE record.ultimateParent
\* the descriptor of a company for a parent slot
descriptorOf(c, slot) ==
    IF slot = "direct" THEN c.relationships.directParent
    ELSE c.relationships.ultimateParent

\* C26: descriptor extraction keeps the reporting-exception link of the
\* registry's link bundle, whatever links stand beside it, in the parser and
\* in the batch matcher alike.
C26_ExceptionLinkKept ==
    (call.fn = "extract" /\ call.pc = "returned") =>
        \A slot \in Slots :
            "reporting-exception" \in bundleOf(call.first, slot).links =>
                /\ "reportingException" \in descriptorOf(call.result, slot).links
                /\ "reportingException" \in descriptorOf(call.second, slot).links

\* the batch of file f waits for a prefetch of a reporting exception
prefetching(f) == batches[f].pc \in {"prefetchDirect", "prefetchUltimate"}

\* C27: the prefetch of reporting-exception reasons is attempted only within
\* the first prefetchLimit rows of the loop and only for a Matched record;
\* when it settles, failed or not, the record is still Matched and the batch
\* goes on (to the other prefetch or to the delay), and after a failed
\* prefetch the delay is followed by the next name or by the end of the loop.
C27_PrefetchBestEffort ==
    [][\A f \in DOMAIN batches :
          LET b == batches[f]
              row == current(b)
          IN /\ prefetching(f) =>
                  /\ b.i <= prefetchLimit
                  /\ arrays[f][row].company = Matched
                  /\ (batches'[f] # b =>
                        /\ arrays'[f][row].company = Matched
                        /\ batches'[f].i = b.i
                        /\ batches'[f].pc \in {"prefetchUltimate", "delay"})
             /\ (b.pc = "delay" /\ b.prefetched = "failed" /\ batches'[f] # b) =>
                  /\ arrays'[f][row].company = Matched
                  /\ \/ batches'[f].pc = "search" /\ batches'[f].i = b.i + 1
                     \/ batches'[f].pc = "done" /\ b.i = Len(b.order)]_vars

\* a prefetch has failed, the record is Matched and the batch is in its delay
C27_Witness ==
    \E f \in DOMAIN batches :
        /\ batches[f].pc = "delay"
        /\ batches[f].prefetched = "failed"
        /\ arrays[f][current(batches[f])].company = Matched

\* the non-empty strings among the components of an address, in the order
\* address lines, city, region, country, postal code
componentsInOrder(a) ==
    LET lines == IF a.addressLines = Null THEN <<>> ELSE a.addressLines.items
        scalar(x) == IF x = Null \/ x.text = "" THEN <<>> ELSE <<x.text>>
    IN  lines \o scalar(a.city) \o scalar(a.region) \o scalar(a.country)
            \o scalar(a.postalCode)

\* C28: the formatted address is the non-empty components in the order
\* address lines, city, region, country, postal code, joined with ", ", and
\* the parser and the name matcher format an address alike.
C28_AddressFormat ==
    (call.fn = "formatAddress" /\ call.pc = "returned") =>
        /\ call.result = Text(join(componentsInOrder(call.first)))
        /\ call.second = call.result

retrySettled(f, r) ==
    /\ f \in DOMAIN arrays
    /\ r \in DOMAIN arrays[f]
    /\ ~retrying(f, r)
    /\ arrays[f][r].name \notin pendingMatches
    /\ arrays[f][r].company \in {Matched, Null}

\* C30: every manual retry that starts eventually finishes with the pending
\* marker of the row removed and the record Matched or NoMatch, whatever the
\* search and the children check give.
C30_RetryFinishes ==
    \A r \in 1..MaxRows :
        retrying(1, r) ~> retrySettled(1, r)

\* a row left out of the sample has been retried and the retry has finished
C30_Witness ==
    \E f \in DOMAIN batches :
        /\ batches[f].pc = "done"
        /\ \E r \in DOMAIN arrays[f] \ sampled(batches[f]) : retrySettled(f, r)

====
